---- MODULE Spec2Model ----
(***************************************************************************)
(* Clinical-trial payment reconciliation: the investigation orchestrator   *)
(* (backend/services/orchestration_service.py), the crew callback handler  *)
(* (backend/utils/callbacks.py), the module-level dataset of the engine    *)
(* tools (backend/agents/tools.py) and the HTTP endpoints (backend/app.py).*)
(*                                                                         *)
(* One background thread per investigation runs run_investigation.  The    *)
(* code takes no lock, so every assignment to a field of the shared        *)
(* investigation record is a step of its own and the endpoints may run     *)
(* between any two of them.                                                *)
(*                                                                         *)
(* Identifiers: uuid4 values are fresh.  Investigations are numbered 1, 2,  *)
(* ... in the order start_investigation registers them.  The endpoints     *)
(* take any string: a request names the identifier of an investigation,    *)
(* returned to a client or not, or a string that is no generated           *)
(* identifier (the identifier 0).  The server answers every request in a   *)
(* thread of its own, so any number of requests are in flight at a time.   *)
(***************************************************************************)
EXTENDS Integers, Sequences, FiniteSets, TLC

\* Number of start_investigation calls the model follows.
MaxInv == 2
\* Number of report requests the model follows at a time.
MaxReports == 2
\* Length in characters of a long text an agent returns for a task.
RawLen == 600

\* callbacks.py: 'task_name': task_description[:100]
TaskNameCap == 100
\* callbacks.py: 'output': task_result[:500]
OutputCap == 500
\* orchestration_service.py: output_preview = data.get('output', '')[:200]
PreviewCap == 200

VARIABLES
    investigations,  \* self.investigations: identifier -> InvestigationStatus
    GLOBAL_DATA,     \* tools._GLOBAL_DATA: 0 is the empty dict, d > 0 the dataset generated for investigation d
    pc,              \* position of call i of start_investigation and of the thread it starts
    data_dict,       \* data_dict captured by the closure run_investigation of call i
    task,            \* index of the crew task thread i is at (0 outside kickoff)
    task_output,     \* the TaskOutput.raw of the last task of thread i
    reads,           \* the datasets the tool run of the current task of thread i has read, one per table
    exc,             \* the exception caught at line 106 of thread i
    returned,        \* identifiers start_investigation has returned to a client
    rpc,             \* the report requests in flight: how many for identifier i are at each line
    resp,            \* the HTTP response produced by the last step, NoResp if it produced none
    dataset,         \* the four tables of _GLOBAL_DATA that the engine tools read
    tool_out         \* what each engine tool has returned, in the order the crew runs them

ovars == <<investigations, GLOBAL_DATA, pc, data_dict, task, task_output, reads, exc, returned, rpc, resp>>
evars == <<dataset, tool_out>>
vars == <<ovars, evars>>

Ids == 1..MaxInv

(***************************************************************************)
(* Values                                                                  *)
(***************************************************************************)
\* Optional[T]: None is the empty tuple, a present value x is <<x>>.
None == << >>
Some(x) == <<x>>
\* datetime.now()
Now == Some("now")

Min(a, b) == IF a <= b THEN a ELSE b

\* A text derived from dataset `data`, `len` characters long.
Text(data, len) == [data |-> data, len |-> len]
\* text[:cap]
Truncate(text, cap) == [text EXCEPT !.len = Min(text.len, cap)]

\* StatusEnum
PENDING == "pending"
RUNNING == "running"
COMPLETE == "complete"
ERROR == "error"

\* self.agent_configs
AgentConfigs ==
    << [agent_id |-> "data_ingestion", agent_name |-> "Data Ingestion Agent",
        description |-> "Loading and validating payment data"],
       [agent_id |-> "reconciliation", agent_name |-> "Payment Reconciliation Agent",
        description |-> "Matching visits to payments"],
       [agent_id |-> "contract_compliance", agent_name |-> "Contract Compliance Agent",
        description |-> "Validating payment amounts"],
       [agent_id |-> "budget_analysis", agent_name |-> "Budget Analysis Agent",
        description |-> "Analyzing budget health"],
       [agent_id |-> "report_generation", agent_name |-> "Report Generation Agent",
        description |-> "Compiling executive report"] >>

NumAgents == Len(AgentConfigs)
Stages == 1..NumAgents

\* AgentStatus(agent_id=..., agent_name=..., status=PENDING, current_activity=description)
NewAgent(config) ==
    [agent_id |-> config.agent_id,
     agent_name |-> config.agent_name,
     status |-> PENDING,
     started_at |-> None,
     completed_at |-> None,
     tasks_completed |-> << >>,
     current_activity |-> Some(config.description),
     error_message |-> None]

\* InvestigationStatus(investigation_id=..., status=RUNNING, started_at=now, agents=agents)
NewInvestigation(id) ==
    [investigation_id |-> id,
     status |-> RUNNING,
     started_at |-> Now,
     completed_at |-> None,
     agents |-> [k \in Stages |-> NewAgent(AgentConfigs[k])],
     final_report |-> None,
     error_message |-> None]

(***************************************************************************)
(* The crew: five tasks, run in sequence, each owned by one agent.  A task *)
(* description is its first 50 characters, stripped, and its length.       *)
(***************************************************************************)
TaskDescriptions ==
    << [head |-> "Load all clinical trial payment data from the data", len |-> 665],
       [head |-> "Reconcile all patient visits against payments made", len |-> 710],
       [head |-> "Validate that all payment amounts match the contra", len |-> 652],
       [head |-> "Analyze budget utilization and forecast potential", len |-> 600],
       [head |-> "Synthesize all findings into a prioritized executi", len |-> 672] >>

\* task_description[:50].strip()
TaskKey(description) == description.head

\* self.agent_task_map after the five register_task_to_agent calls of
\* create_reconciliation_crew, in task order: a later registration of the
\* same key overwrites an earlier one.
agent_task_map ==
    [key \in {TaskKey(TaskDescriptions[k]) : k \in Stages} |->
        LET last == CHOOSE k \in Stages :
                        /\ TaskKey(TaskDescriptions[k]) = key
                        /\ \A j \in Stages : TaskKey(TaskDescriptions[j]) = key => j <= k
        IN  <<"data_ingestion", "reconciliation", "contract_compliance",
              "budget_analysis", "report_generation">>[last]]

\* task_callback: the agent the completed task maps to, None when no agent is mapped.
MappedAgent(description) ==
    IF TaskKey(description) \in DOMAIN agent_task_map
    THEN Some(agent_task_map[TaskKey(description)])
    ELSE None

\* The statements of the tool of task k that read _GLOBAL_DATA, one per table
\* (tools.py lines 25-28, 86-87, 164-165, 237-239, 315-316 and 354 and 379).
ToolReads == <<4, 2, 2, 3, 4>>

\* The lengths of the answers the agents' LLM gives: none, or more than
\* every cap.
AnswerLens == {0, RawLen}

\* The agent's answer for a task: a text of the LLM's length about the
\* tables its tool read (none when the agent did not call its tool).
EngineRun(tables, len) == Text(tables, len)

\* str(result) of the CrewOutput of kickoff: the raw text of the last task.
Str(result) == result.raw

(***************************************************************************)
(* _update_status, one operator per assignment.  inv is the investigation  *)
(* record, k the index of the agent with the given agent_id.               *)
(***************************************************************************)
\* next((a for a in investigation.agents if a.agent_id == agent_id), None); 0 is None
AgentIndex(inv, agent_id) ==
    IF \E k \in DOMAIN inv.agents : inv.agents[k].agent_id = agent_id
    THEN CHOOSE k \in DOMAIN inv.agents :
            /\ inv.agents[k].agent_id = agent_id
            /\ \A j \in DOMAIN inv.agents : inv.agents[j].agent_id = agent_id => k <= j
    ELSE 0

\* event 'running': agent.status = StatusEnum.RUNNING
SetRunning_Complete(inv, k) == [inv EXCEPT !.agents[k].status = COMPLETE]
SetRunning(inv, k) == [inv EXCEPT !.agents[k].status = RUNNING]
\* event 'running': agent.started_at = datetime.now()
SetStartedAt(inv, k) == [inv EXCEPT !.agents[k].started_at = Now]
\* event 'running': agent.current_activity = data['message']
SetActivity(inv, k, message) == [inv EXCEPT !.agents[k].current_activity = Some(message)]

\* AgentTask(task_name=..., completed_at=now, output_preview=output[:200] if output else None)
AgentTask(data) ==
    [task_name |-> data.task_name,
     completed_at |-> Now,
     output_preview |-> IF data.output.len > 0
                        THEN Some(Truncate(data.output, PreviewCap))
                        ELSE None]

\* event 'task_complete': agent.tasks_completed.append(task)
AppendTask_Twice(inv, k, data) ==
    [inv EXCEPT !.agents[k].tasks_completed = Append(Append(@, AgentTask(data)), AgentTask(data))]
AppendTask(inv, k, data) ==
    [inv EXCEPT !.agents[k].tasks_completed = Append(@, AgentTask(data))]
\* event 'task_complete': agent.status = StatusEnum.COMPLETE
MarkComplete_Skip(inv, k) == inv
MarkComplete(inv, k) == [inv EXCEPT !.agents[k].status = COMPLETE]
\* event 'task_complete': agent.completed_at = datetime.now()
SetCompletedAt(inv, k) == [inv EXCEPT !.agents[k].completed_at = Now]
\* event 'task_complete': agent.current_activity = 'Complete'
SetActivityComplete(inv, k) == [inv EXCEPT !.agents[k].current_activity = Some("Complete")]
\* event 'task_complete': current_index + 1 < len(investigation.agents)
HasNext(inv, k) == k + 1 <= Len(inv.agents)
\* event 'task_complete': next_agent.status = StatusEnum.RUNNING
StartNext_Skipping(inv, k) == [inv EXCEPT !.agents[Min(k + 2, NumAgents)].status = RUNNING]
StartNext(inv, k) == [inv EXCEPT !.agents[k + 1].status = RUNNING]
\* event 'task_complete': next_agent.started_at = datetime.now()
SetNextStartedAt(inv, k) == [inv EXCEPT !.agents[k + 1].started_at = Now]

(***************************************************************************)
(* run_investigation, the assignments after kickoff and in the handler     *)
(***************************************************************************)
\* self.investigations[id].final_report = str(result)
StoreFinalReport_Preview(inv, result) ==
    [inv EXCEPT !.final_report = Some(Truncate(Str(result), PreviewCap))]
StoreFinalReport(inv, result) == [inv EXCEPT !.final_report = Some(Str(result))]
\* self.investigations[id].status = StatusEnum.COMPLETE
SetInvComplete(inv) == [inv EXCEPT !.status = COMPLETE]
\* self.investigations[id].status = StatusEnum.ERROR
SetInvError(inv) == [inv EXCEPT !.status = ERROR]
\* self.investigations[id].error_message = str(e)
SetInvErrorMessage(inv, e) == [inv EXCEPT !.error_message = Some(e)]
\* self.investigations[id].completed_at = datetime.now()
SetInvCompletedAt(inv) == [inv EXCEPT !.completed_at = Now]

(***************************************************************************)
(* The endpoints                                                           *)
(***************************************************************************)
\* self.investigations.get(investigation_id)
get_investigation_status(registry, id) ==
    IF id \in DOMAIN registry THEN Some(registry[id]) ELSE None

\* status.status != 'complete', negated
ReportReady(inv) == inv.status = COMPLETE

NoResp == [endpoint |-> "none", id |-> 0, code |-> 0, body |-> None]
Response(endpoint, id, code, body) == [endpoint |-> endpoint, id |-> id, code |-> code, body |-> body]
\* get_final_report after its lookup: before the test of line 81, before the
\* answer of lines 82-85, before the answer of lines 87-90
ReportLines == {"L81", "L82", "L87"}

Constructed ==
    /\ investigations = << >>
    /\ GLOBAL_DATA = 0
    /\ pc = [i \in Ids |-> "unregistered"]
    /\ data_dict = [i \in Ids |-> 0]
    /\ task = [i \in Ids |-> 0]
    /\ task_output = [i \in Ids |-> Text(<< >>, 0)]
    /\ reads = [i \in Ids |-> << >>]
    /\ exc = [i \in Ids |-> ""]
    /\ returned = {}
    /\ rpc = [i \in Ids |-> [line \in ReportLines |-> 0]]
    /\ resp = NoResp

\* The orchestrator is followed with the tables abstracted to GLOBAL_DATA.
Init ==
    /\ Constructed
    /\ dataset = << >>
    /\ tool_out = << >>

(***************************************************************************)
(* start_investigation, call i                                             *)
(***************************************************************************)
\* lines 55-76: build the record, self.investigations[investigation_id] = investigation
Register(i) ==
    /\ pc[i] = "unregistered"
    /\ \A j \in 1..(i - 1) : pc[j] # "unregistered"
    /\ investigations' = investigations @@ (i :> NewInvestigation(i))
    /\ pc' = [pc EXCEPT ![i] = "L79"]
    /\ resp' = NoResp
    /\ UNCHANGED <<GLOBAL_DATA, data_dict, task, task_output, reads, exc, returned, rpc>>

\* line 79: data_dict = self.data_service.generate_all_data() returns the dataset of call i
GenerateData(i) ==
    /\ pc[i] = "L79"
    /\ data_dict' = [data_dict EXCEPT ![i] = i]
    /\ pc' = [pc EXCEPT ![i] = "L112"]
    /\ resp' = NoResp
    /\ UNCHANGED <<investigations, GLOBAL_DATA, task, task_output, reads, exc, returned, rpc>>

\* line 79 raises: start_investigation is left by the exception, no thread is
\* started, and start_reconciliation (app.py) answers 500
GenerateDataRaises(i) ==
    /\ pc[i] = "L79"
    /\ pc' = [pc EXCEPT ![i] = "start_failed"]
    /\ resp' = Response("start", 0, 500, None)
    /\ UNCHANGED <<investigations, GLOBAL_DATA, data_dict, task, task_output, reads, exc, returned, rpc>>

\* lines 112-113: thread.start() returns once the thread is running
StartThread(i) ==
    /\ pc[i] = "L112"
    /\ pc' = [pc EXCEPT ![i] = "L137"]
    /\ resp' = NoResp
    /\ UNCHANGED <<investigations, GLOBAL_DATA, data_dict, task, task_output, reads, exc, returned, rpc>>

\* line 115: return investigation_id (app.py answers 200 with it) once
\* thread.start() of call i has returned, while the thread it started runs on
ReturnId(i) ==
    /\ pc[i] \notin {"unregistered", "L79", "start_failed", "L112"}
    /\ i \notin returned
    /\ returned' = returned \cup {i}
    /\ resp' = Response("start", i, 200, None)
    /\ UNCHANGED <<investigations, GLOBAL_DATA, pc, data_dict, task, task_output, reads, exc, rpc>>

(***************************************************************************)
(* run_investigation, thread i                                             *)
(***************************************************************************)
\* A step of thread i that assigns one field of its investigation record.
Write(i, from, to, inv) ==
    /\ pc[i] = from
    /\ investigations' = [investigations EXCEPT ![i] = inv]
    /\ pc' = [pc EXCEPT ![i] = to]
    /\ resp' = NoResp
    /\ UNCHANGED <<GLOBAL_DATA, data_dict, returned, rpc>>

\* The agent the running task's callback updates.
CurrentAgent(i) ==
    AgentIndex(investigations[i], MappedAgent(TaskDescriptions[task[i]])[1])

\* lines 85-90 -> _update_status(id, 'data_ingestion', 'running', ...), line 137
FirstRunning(i) ==
    /\ Write(i, "L137", "L138",
             SetRunning(investigations[i], AgentIndex(investigations[i], "data_ingestion")))
    /\ UNCHANGED <<task, task_output, reads, exc>>

\* line 138
FirstStartedAt(i) ==
    /\ Write(i, "L138", "L140",
             SetStartedAt(investigations[i], AgentIndex(investigations[i], "data_ingestion")))
    /\ UNCHANGED <<task, task_output, reads, exc>>

\* lines 139-140
FirstActivity(i) ==
    /\ Write(i, "L140", "crew_L40",
             SetActivity(investigations[i], AgentIndex(investigations[i], "data_ingestion"),
                         "Starting data validation..."))
    /\ UNCHANGED <<task, task_output, reads, exc>>

\* create_reconciliation_crew, line 40: set_global_data(data_dict) rebinds _GLOBAL_DATA
SetGlobalData(i) ==
    /\ pc[i] = "crew_L40"
    /\ GLOBAL_DATA' = data_dict[i]
    /\ pc' = [pc EXCEPT ![i] = "crew_L43"]
    /\ resp' = NoResp
    /\ UNCHANGED <<investigations, data_dict, task, task_output, reads, exc, returned, rpc>>

\* create_reconciliation_crew, lines 43-112, returns the crew; kickoff begins with task 1
CreateCrew(i) ==
    /\ pc[i] = "crew_L43"
    /\ pc' = [pc EXCEPT ![i] = "kickoff"]
    /\ task' = [task EXCEPT ![i] = 1]
    /\ resp' = NoResp
    /\ UNCHANGED <<investigations, GLOBAL_DATA, data_dict, task_output, reads, exc, returned, rpc>>

\* create_reconciliation_crew raises (LLM, agent or crew construction): line 106
CreateCrewRaises(i) ==
    /\ pc[i] = "crew_L43"
    /\ pc' = [pc EXCEPT ![i] = "L108"]
    /\ exc' = [exc EXCEPT ![i] = "crew creation failed"]
    /\ resp' = NoResp
    /\ UNCHANGED <<investigations, GLOBAL_DATA, data_dict, task, task_output, reads, returned, rpc>>

\* Where thread i goes once the callback of task k has returned: the next
\* task, or line 102 when kickoff returns.
AfterCallback(k) == IF k < Len(TaskDescriptions) THEN "kickoff" ELSE "L102"
NextTask(k) == IF k < Len(TaskDescriptions) THEN k + 1 ELSE k

\* crew.kickoff(), inside a run of the tool of the current task: the next
\* statement that reads a table of _GLOBAL_DATA.  The agent may call its
\* tool again after a run.
ToolRead(i) ==
    /\ pc[i] = "kickoff"
    /\ GLOBAL_DATA # 0
    /\ reads' = [reads EXCEPT ![i] = IF Len(@) < ToolReads[task[i]]
                                     THEN Append(@, GLOBAL_DATA)
                                     ELSE <<GLOBAL_DATA>>]
    /\ resp' = NoResp
    /\ UNCHANGED <<investigations, GLOBAL_DATA, pc, data_dict, task, task_output, exc, returned, rpc>>

\* crew.kickoff(): the agent of the current task, outside a tool run, gives
\* its answer; the crew calls task_callback, which looks the task up
\* (callbacks.py lines 45-54) and either returns or calls
\* _update_status(id, agent_id, 'task_complete', data)
RunTaskAnswering(i, len) ==
    /\ pc[i] = "kickoff"
    /\ Len(reads[i]) \in {0, ToolReads[task[i]]}
    /\ task_output' = [task_output EXCEPT ![i] = EngineRun(reads[i], len)]
    /\ reads' = [reads EXCEPT ![i] = << >>]
    /\ IF MappedAgent(TaskDescriptions[task[i]]) # None /\ CurrentAgent(i) # 0
       THEN /\ pc' = [pc EXCEPT ![i] = "L149"]
            /\ task' = task
       ELSE /\ pc' = [pc EXCEPT ![i] = AfterCallback(task[i])]
            /\ task' = [task EXCEPT ![i] = NextTask(task[i])]
    /\ resp' = NoResp
    /\ UNCHANGED <<investigations, GLOBAL_DATA, data_dict, exc, returned, rpc>>

\* The answer is of any of the lengths.
RunTask(i) == \E len \in AnswerLens : RunTaskAnswering(i, len)

\* crew.kickoff() raises while the current task runs (agent or LLM failure): line 106
RunTaskRaises(i) ==
    /\ pc[i] = "kickoff"
    /\ pc' = [pc EXCEPT ![i] = "L108"]
    /\ exc' = [exc EXCEPT ![i] = "task failed"]
    /\ reads' = [reads EXCEPT ![i] = << >>]
    /\ resp' = NoResp
    /\ UNCHANGED <<investigations, GLOBAL_DATA, data_dict, task, task_output, returned, rpc>>

\* _update_status 'task_complete', lines 144-149, with the data task_callback
\* hands to update_callback for the completed task
CbAppendTask(i) ==
    /\ LET description == TaskDescriptions[task[i]]
       IN Write(i, "L149", "L152",
                AppendTask(investigations[i], CurrentAgent(i),
                           [task_name |-> [head |-> description.head,
                                           len |-> Min(description.len, TaskNameCap)],
                            output |-> Truncate(task_output[i], OutputCap)]))
    /\ UNCHANGED <<task, task_output, reads, exc>>

\* line 152
CbMarkComplete(i) ==
    /\ Write(i, "L152", "L153", MarkComplete(investigations[i], CurrentAgent(i)))
    /\ UNCHANGED <<task, task_output, reads, exc>>

\* line 153
CbCompletedAt(i) ==
    /\ Write(i, "L153", "L154", SetCompletedAt(investigations[i], CurrentAgent(i)))
    /\ UNCHANGED <<task, task_output, reads, exc>>

\* line 154, then lines 157-158: with a next agent go on to line 160
CbActivityNext(i) ==
    /\ pc[i] = "L154"
    /\ HasNext(investigations[i], CurrentAgent(i))
    /\ Write(i, "L154", "L160", SetActivityComplete(investigations[i], CurrentAgent(i)))
    /\ UNCHANGED <<task, task_output, reads, exc>>

\* line 154, then lines 157-158: without a next agent the callback returns
CbActivityLast(i) ==
    /\ pc[i] = "L154"
    /\ ~HasNext(investigations[i], CurrentAgent(i))
    /\ Write(i, "L154", AfterCallback(task[i]),
             SetActivityComplete(investigations[i], CurrentAgent(i)))
    /\ task' = [task EXCEPT ![i] = NextTask(task[i])]
    /\ UNCHANGED <<task_output, reads, exc>>

\* lines 159-160
CbStartNext(i) ==
    /\ Write(i, "L160", "L161", StartNext(investigations[i], CurrentAgent(i)))
    /\ UNCHANGED <<task, task_output, reads, exc>>

\* line 161, the callback returns
CbNextStartedAt(i) ==
    /\ Write(i, "L161", AfterCallback(task[i]),
             SetNextStartedAt(investigations[i], CurrentAgent(i)))
    /\ task' = [task EXCEPT ![i] = NextTask(task[i])]
    /\ UNCHANGED <<task_output, reads, exc>>

\* line 102, result being the CrewOutput of the last task
FinalReport(i) ==
    /\ Write(i, "L102", "L103",
             StoreFinalReport(investigations[i], [raw |-> task_output[i]]))
    /\ UNCHANGED <<task, task_output, reads, exc>>

\* line 103
FinalStatus(i) ==
    /\ Write(i, "L103", "L104", SetInvComplete(investigations[i]))
    /\ UNCHANGED <<task, task_output, reads, exc>>

\* line 104
FinalCompletedAt(i) ==
    /\ Write(i, "L104", "done", SetInvCompletedAt(investigations[i]))
    /\ UNCHANGED <<task, task_output, reads, exc>>

\* line 108
HandlerStatus(i) ==
    /\ Write(i, "L108", "L109", SetInvError(investigations[i]))
    /\ UNCHANGED <<task, task_output, reads, exc>>

\* line 109
HandlerMessage(i) ==
    /\ Write(i, "L109", "L110", SetInvErrorMessage(investigations[i], exc[i]))
    /\ UNCHANGED <<task, task_output, reads, exc>>

\* line 110
HandlerCompletedAt(i) ==
    /\ Write(i, "L110", "done", SetInvCompletedAt(investigations[i]))
    /\ UNCHANGED <<task, task_output, reads, exc>>

(***************************************************************************)
(* app.py: the requests of a client                                        *)
(***************************************************************************)
\* get_reconciliation_status: 404 on a miss, else 200 with status.model_dump()
StatusEndpoint(id) ==
    /\ LET status == get_investigation_status(investigations, id)
       IN  resp' = IF status = None
                   THEN Response("status", id, 404, None)
                   ELSE Response("status", id, 200, status)
    /\ UNCHANGED <<investigations, GLOBAL_DATA, pc, data_dict, task, task_output, reads, exc, returned, rpc>>

\* The number of report requests in flight.
InFlight ==
    Cardinality({r \in Ids \X ReportLines \X (1..MaxReports) : r[3] <= rpc[r[1]][r[2]]})

\* get_final_report, lines 73-79: the lookup; 404 on a miss
ReportLookup(id) ==
    /\ LET status == get_investigation_status(investigations, id)
       IN  IF status = None
           THEN /\ resp' = Response("report", id, 404, None)
                /\ rpc' = rpc
           ELSE /\ InFlight < MaxReports
                /\ resp' = NoResp
                /\ rpc' = [rpc EXCEPT ![id]["L81"] = @ + 1]
    /\ UNCHANGED <<investigations, GLOBAL_DATA, pc, data_dict, task, task_output, reads, exc, returned>>

\* The record a request for id holds a reference to: records are never removed.
Held(id) == investigations[id]

\* get_final_report, line 81: if status.status != 'complete'
ReportCheck(id) ==
    /\ rpc[id]["L81"] > 0
    /\ resp' = NoResp
    /\ rpc' = IF ReportReady(Held(id))
              THEN [rpc EXCEPT ![id]["L81"] = @ - 1, ![id]["L87"] = @ + 1]
              ELSE [rpc EXCEPT ![id]["L81"] = @ - 1, ![id]["L82"] = @ + 1]
    /\ UNCHANGED <<investigations, GLOBAL_DATA, pc, data_dict, task, task_output, reads, exc, returned>>

\* get_final_report, lines 82-85: 400 with the status.status read at line 84
ReportRefuse(id) ==
    /\ rpc[id]["L82"] > 0
    /\ resp' = Response("report", id, 400, Some(Held(id).status))
    /\ rpc' = [rpc EXCEPT ![id]["L82"] = @ - 1]
    /\ UNCHANGED <<investigations, GLOBAL_DATA, pc, data_dict, task, task_output, reads, exc, returned>>

\* get_final_report, lines 87-90: 200 with status.final_report
ReportReturn(id) ==
    /\ rpc[id]["L87"] > 0
    /\ resp' = Response("report", id, 200, Held(id).final_report)
    /\ rpc' = [rpc EXCEPT ![id]["L87"] = @ - 1]
    /\ UNCHANGED <<investigations, GLOBAL_DATA, pc, data_dict, task, task_output, reads, exc, returned>>

StartStep(i) ==
    /\ Register(i) \/ GenerateData(i) \/ GenerateDataRaises(i) \/ StartThread(i) \/ ReturnId(i)
    /\ UNCHANGED evars

ThreadStep(i) ==
    /\ UNCHANGED evars
    /\ \/ FirstRunning(i) \/ FirstStartedAt(i) \/ FirstActivity(i)
       \/ SetGlobalData(i) \/ CreateCrew(i) \/ CreateCrewRaises(i)
       \/ ToolRead(i) \/ RunTask(i) \/ RunTaskRaises(i)
       \/ CbAppendTask(i) \/ CbMarkComplete(i) \/ CbCompletedAt(i)
       \/ CbActivityNext(i) \/ CbActivityLast(i) \/ CbStartNext(i) \/ CbNextStartedAt(i)
       \/ FinalReport(i) \/ FinalStatus(i) \/ FinalCompletedAt(i)
       \/ HandlerStatus(i) \/ HandlerMessage(i) \/ HandlerCompletedAt(i)

ClientStep ==
    /\ UNCHANGED evars
    /\ \/ \E id \in Ids \cup {0} : StatusEndpoint(id) \/ ReportLookup(id)
       \/ \E id \in Ids : ReportCheck(id) \/ ReportRefuse(id) \/ ReportReturn(id)

Next ==
    \/ \E i \in Ids : StartStep(i) \/ ThreadStep(i)
    \/ ClientStep

Spec == Init /\ [][Next]_vars

\* One investigation and the clients: thread i writes only investigations[i],
\* and of what the threads share it reads only _GLOBAL_DATA, inside the tools.
SoloNext ==
    \/ StartStep(1)
    \/ ThreadStep(1)
    \/ ClientStep

SoloSpec == Init /\ [][SoloNext]_vars

\* Two investigations that run their pipelines side by side without a
\* failure: every agent calls its tool and answers at length.
PairNext ==
    \E i \in Ids :
    /\ UNCHANGED evars
    /\ \/ Register(i) \/ GenerateData(i) \/ StartThread(i)
       \/ FirstRunning(i) \/ FirstStartedAt(i) \/ FirstActivity(i)
       \/ SetGlobalData(i) \/ CreateCrew(i)
       \/ ToolRead(i)
       \/ reads[i] # << >> /\ RunTaskAnswering(i, RawLen)
       \/ CbAppendTask(i) \/ CbMarkComplete(i) \/ CbCompletedAt(i)
       \/ CbActivityNext(i) \/ CbActivityLast(i) \/ CbStartNext(i) \/ CbNextStartedAt(i)
       \/ FinalReport(i) \/ FinalStatus(i) \/ FinalCompletedAt(i)

PairSpec == Init /\ [][PairNext]_vars

(***************************************************************************)
(* Properties                                                              *)
(***************************************************************************)
Terminal(inv) == inv.status \in {COMPLETE, ERROR}
RunningStages(inv) == {k \in DOMAIN inv.agents : inv.agents[k].status = RUNNING}
AllPending(inv) == \A k \in DOMAIN inv.agents : inv.agents[k].status = PENDING
\* The last step answered a status request with a record.
StatusRead == resp.endpoint = "status" /\ resp.code = 200
\* ... of an investigation whose identifier start_investigation has returned.
ClientRead == StatusRead /\ resp.id \in returned
\* The stage that was running when thread i caught its exception.
FailedStage(i) == IF task[i] = 0 THEN 1 ELSE task[i]

\* C1: in every state of an investigation that a status read can observe, and in
\* every record a status read returns, at most one of the five stages is running.
C1_AtMostOneRunning ==
    /\ \A i \in DOMAIN investigations : Cardinality(RunningStages(investigations[i])) <= 1
    /\ StatusRead => Cardinality(RunningStages(resp.body[1])) <= 1

\* A status read returns a record in which stage 2 has handed over to stage 3.
C1_Witness ==
    /\ StatusRead
    /\ resp.body[1].agents[2].status = COMPLETE
    /\ resp.body[1].agents[3].status = RUNNING

\* C2: once start_investigation has returned the identifier, no status read finds
\* the investigation running with all five stages still pending.
C2_StageOneRunningOnceReturned ==
    ClientRead => ~(resp.body[1].status = RUNNING /\ AllPending(resp.body[1]))

\* C3: when the pipeline fails while stage k is running, the handler leaves stage k
\* in error, the investigation in error with the message and the completion
\* timestamp, and every later stage pending.
C3_FailureMarksStage ==
    \A i \in DOMAIN investigations :
        (pc[i] = "done" /\ exc[i] # "") =>
            LET inv == investigations[i]
            IN  /\ inv.agents[FailedStage(i)].status = ERROR
                /\ inv.status = ERROR
                /\ inv.error_message = Some(exc[i])
                /\ inv.completed_at # None
                /\ \A j \in DOMAIN inv.agents : j > FailedStage(i) => inv.agents[j].status = PENDING

\* C4: when the full pipeline returns, the investigation ends complete, with the
\* text of the pipeline result as final report, the completion timestamp set and
\* no error message.
C4_SuccessResult ==
    \A i \in DOMAIN investigations :
        (pc[i] = "done" /\ exc[i] = "") =>
            LET inv == investigations[i]
            IN  /\ inv.status = COMPLETE
                /\ inv.final_report = Some(task_output[i])
                /\ inv.completed_at # None
                /\ inv.error_message = None

\* A thread has run the whole pipeline and finished.
C4_Witness ==
    \E i \in DOMAIN investigations :
        /\ pc[i] = "done"
        /\ exc[i] = ""
        /\ task[i] = NumAgents
        /\ Len(investigations[i].agents[NumAgents].tasks_completed) = 1

\* C5: no status read of a client that holds the identifier returns a torn record: none has overall status complete or
\* error without the completion timestamp, none has stage k complete while stage
\* k+1 is still pending.
C5_NoTornRead ==
    ClientRead =>
        LET inv == resp.body[1]
        IN  /\ Terminal(inv) => inv.completed_at # None
            /\ \A k \in DOMAIN inv.agents :
                   (k + 1 \in DOMAIN inv.agents /\ inv.agents[k].status = COMPLETE)
                       => inv.agents[k + 1].status # PENDING

\* C6: once the overall status of an investigation is complete or error, no step
\* changes its record.
C6_Sealed ==
    [][\A i \in DOMAIN investigations :
           Terminal(investigations[i]) => investigations'[i] = investigations[i]]_vars

\* C7: every engine run for investigation i reads the dataset generated for i.
C7_EnginesReadOwnData ==
    \A i \in Ids :
        /\ \A t \in DOMAIN reads[i] : reads[i][t] = data_dict[i]
        /\ \A t \in DOMAIN task_output[i].data : task_output[i].data[t] = data_dict[i]

\* C8: a registered investigation that is neither complete nor error still has a
\* step to take (it does not stay running forever).
C8_RunsToEnd ==
    \A i \in DOMAIN investigations :
        Terminal(investigations[i]) \/ ENABLED (StartStep(i) \/ ThreadStep(i))

\* C9: a status or report request for an identifier start_investigation never
\* returned is answered 404, and the lookup leaves the registry unchanged.
C9_UnknownIdNotFound ==
    [][(resp'.endpoint \in {"status", "report"} /\ resp'.id \notin returned)
          => (resp'.code = 404 /\ resp'.body = None /\ investigations' = investigations)]_vars

\* C10: for a known investigation the report endpoint answers 200 or 400; 200
\* exactly when the status is complete, and then with the stored final report;
\* 400 only when the status is running or error, which is also the status the
\* 400 answer names.
C10_ReportAnswer ==
    (resp.endpoint = "report" /\ resp.id \in returned) =>
        LET inv == investigations[resp.id]
        IN  /\ resp.code \in {200, 400}
            /\ resp.code = 200 =>
                   /\ inv.status = COMPLETE
                   /\ resp.body # None
                   /\ resp.body = inv.final_report
            /\ resp.code = 400 =>
                   /\ inv.status \in {RUNNING, ERROR}
                   /\ resp.body = Some(inv.status)


(***************************************************************************)
(* The engine tools (backend/agents/tools.py)                              *)
(*                                                                         *)
(* A DataFrame is a sequence of rows, a row a record of its columns, and   *)
(* the row labels are the indices of the sequence.  A Series is a function *)
(* from row labels to values.  Amounts are whole dollars.                  *)
(*                                                                         *)
(* A float64 is nan, an infinity or a number.  A number is written n/d     *)
(* when it is the float64 nearest to the fraction n/d (n/d itself when the *)
(* reduced d is a power of two), and else by its sign n, its significand m *)
(* of 53 bits and its exponent e: the value is n * m * 2^e.  Every         *)
(* operation gives the float64 nearest to the exact result, a tie to the   *)
(* even significand, as IEEE 754 binary64 does.  The sign of zero and the  *)
(* limits of the exponent are outside the model.                           *)
(***************************************************************************)
Frac(n, d) == [k |-> "num", n |-> n, d |-> d]
Num(n) == Frac(n, 1)
NaN == [k |-> "nan", n |-> 0, d |-> 1]
Inf(sign) == [k |-> "inf", n |-> sign, d |-> 1]
Bin(sign, m, e) == [k |-> "bin", n |-> sign, d |-> [m |-> m, e |-> e]]

Sign(n) == IF n > 0 THEN 1 ELSE IF n < 0 THEN -1 ELSE 0
Abs(n) == IF n < 0 THEN -n ELSE n

\* The significand of a float64 has 53 bits, more than an integer of the
\* model holds: a natural number of any size is the sequence of its digits
\* in base Limb, the lowest first, the highest not 0.
Limb == 2^15

RECURSIVE BigOf(_)
BigOf(n) == IF n = 0 THEN << >> ELSE <<n % Limb>> \o BigOf(n \div Limb)

RECURSIVE BigToInt(_)
BigToInt(a) == IF a = << >> THEN 0 ELSE a[1] + Limb * BigToInt(Tail(a))

\* a without its leading zero digits
RECURSIVE BigTrim(_)
BigTrim(a) ==
    IF a # << >> /\ a[Len(a)] = 0 THEN BigTrim(SubSeq(a, 1, Len(a) - 1)) ELSE a

\* a + b + carry
RECURSIVE BigAdd(_, _, _)
BigAdd(a, b, carry) ==
    IF a = << >> /\ b = << >> THEN (IF carry = 0 THEN << >> ELSE <<carry>>)
    ELSE IF a = << >> THEN BigAdd(<<0>>, b, carry)
    ELSE IF b = << >> THEN BigAdd(a, <<0>>, carry)
    ELSE <<(a[1] + b[1] + carry) % Limb>>
         \o BigAdd(Tail(a), Tail(b), (a[1] + b[1] + carry) \div Limb)

\* a - b, for a >= b
RECURSIVE BigSubBorrow(_, _, _)
BigSubBorrow(a, b, borrow) ==
    IF a = << >> THEN << >>
    ELSE IF b = << >> THEN BigSubBorrow(a, <<0>>, borrow)
    ELSE <<(a[1] - b[1] - borrow + Limb) % Limb>>
         \o BigSubBorrow(Tail(a), Tail(b), IF a[1] - b[1] - borrow < 0 THEN 1 ELSE 0)
BigSub(a, b) == BigTrim(BigSubBorrow(a, b, 0))

\* 1, 0 or -1 as a > b, a = b or a < b
RECURSIVE BigCmpFrom(_, _, _)
BigCmpFrom(a, b, i) ==
    IF i = 0 THEN 0
    ELSE IF a[i] # b[i] THEN (IF a[i] > b[i] THEN 1 ELSE -1)
    ELSE BigCmpFrom(a, b, i - 1)
BigCmp(a, b) ==
    IF Len(a) # Len(b) THEN (IF Len(a) > Len(b) THEN 1 ELSE -1)
    ELSE BigCmpFrom(a, b, Len(a))

\* a * digit, for digit < Limb
RECURSIVE BigMulCarry(_, _, _)
BigMulCarry(a, digit, carry) ==
    IF a = << >> THEN (IF carry = 0 THEN << >> ELSE <<carry>>)
    ELSE <<(a[1] * digit + carry) % Limb>>
         \o BigMulCarry(Tail(a), digit, (a[1] * digit + carry) \div Limb)
BigMulSmall(a, digit) == BigTrim(BigMulCarry(a, digit, 0))

\* a * b
RECURSIVE BigMul(_, _)
BigMul(a, b) ==
    IF a = << >> \/ b = << >> THEN << >>
    ELSE BigAdd(BigMulSmall(a, b[1]),
                IF Len(b) = 1 THEN << >> ELSE <<0>> \o BigMul(a, Tail(b)), 0)

\* a * 2^s
BigShl(a, s) ==
    IF a = << >> THEN << >>
    ELSE [i \in 1..(s \div 15) |-> 0] \o BigMulSmall(a, 2^(s % 15))

\* a \div digit, for 0 < digit < Limb: the quotient, below the remainder rem
\* of the higher digits
RECURSIVE BigDivSmall(_, _, _)
BigDivSmall(a, digit, rem) ==
    IF a = << >> THEN << >>
    ELSE BigDivSmall(SubSeq(a, 1, Len(a) - 1), digit, (rem * Limb + a[Len(a)]) % digit)
         \o <<(rem * Limb + a[Len(a)]) \div digit>>

\* a \div 2^s
BigShr(a, s) ==
    IF s \div 15 >= Len(a) THEN << >>
    ELSE BigTrim(BigDivSmall(SubSeq(a, s \div 15 + 1, Len(a)), 2^(s % 15), 0))

\* the number of binary digits of n and of a
RECURSIVE Bits(_)
Bits(n) == IF n = 0 THEN 0 ELSE 1 + Bits(n \div 2)
BitLen(a) == IF a = << >> THEN 0 ELSE 15 * (Len(a) - 1) + Bits(a[Len(a)])

\* Long division by b > 0, the highest digit of a first.  high is the
\* quotient and the remainder of the higher digits, cur that remainder with
\* the next digit of a below it; the digit of the quotient is found bit by
\* bit (at once when b is one digit).
RECURSIVE QuotientDigit(_, _, _, _, _)
QuotientDigit(high, cur, b, digit, bit) ==
    IF bit = 0
    THEN [q |-> IF digit = 0 /\ high.q = << >> THEN << >> ELSE <<digit>> \o high.q,
          r |-> BigSub(cur, BigMulSmall(b, digit))]
    ELSE IF BigCmp(BigMulSmall(b, digit + bit), cur) <= 0
         THEN QuotientDigit(high, cur, b, digit + bit, bit \div 2)
         ELSE QuotientDigit(high, cur, b, digit, bit \div 2)
BigDivStep(high, cur, b) ==
    IF Len(b) = 1 THEN QuotientDigit(high, cur, b, BigToInt(cur) \div b[1], 0)
    ELSE QuotientDigit(high, cur, b, 0, Limb \div 2)
BigDivBring(high, low, b) == BigDivStep(high, BigTrim(<<low>> \o high.r), b)

\* quotient q and remainder r of a by b
RECURSIVE BigDivMod(_, _)
BigDivMod(a, b) ==
    IF a = << >> THEN [q |-> << >>, r |-> << >>]
    ELSE BigDivBring(BigDivMod(Tail(a), b), a[1], b)

\* a / 2^s rounded to the nearest natural number, a tie to the even one: q
\* is a \div 2^s, and one more when twice the rest, plus 1 for an odd q, is
\* more than 2^s
BigShrUp(a, s, q) ==
    IF BigCmp(BigAdd(BigShl(BigSub(a, BigShl(q, s)), 1), << >>,
                     IF q = << >> THEN 0 ELSE q[1] % 2),
              BigShl(<<1>>, s)) > 0
    THEN BigAdd(q, <<1>>, 0)
    ELSE q
BigShrRound(a, s) == BigShrUp(a, s, BigShr(a, s))

\* The float64 nearest to sign * a * 2^e (a tie to the even significand),
\* for a > 0; the range of the exponent is not limited.
Round53Carry(sign, q, e) ==
    IF BitLen(q) > 53 THEN Bin(sign, BigShr(q, 1), e + 1) ELSE Bin(sign, q, e)
Round53(sign, a, e) ==
    IF BitLen(a) <= 53 THEN Bin(sign, BigShl(a, 53 - BitLen(a)), e - (53 - BitLen(a)))
    ELSE Round53Carry(sign, BigShrRound(a, BitLen(a) - 53), e + BitLen(a) - 53)

\* The float64 nearest to sign * (a / b) * 2^e, for a > 0 and b > 0: the
\* quotient is taken to 55 bits or more (a shifted by more bits) and one
\* more bit tells whether anything is left.
RoundSticky(sign, dm, e) ==
    Round53(sign, BigAdd(BigShl(dm.q, 1), << >>, IF dm.r = << >> THEN 0 ELSE 1), e)
RoundQuotient(sign, a, b, e) ==
    LET more == IF BitLen(a) < 55 + BitLen(b) THEN 55 + BitLen(b) - BitLen(a) ELSE 0
    IN RoundSticky(sign, BigDivMod(BigShl(a, more), b), e - more - 1)

\* Both x and y are fractions that are float64 themselves, of numbers so
\* small that their sum, product and quotient are float64 too and can be
\* computed as fractions of integers of the model.
Plain(x, y) ==
    LET RECURSIVE GCD(_, _)
        GCD(a, b) == IF b = 0 THEN a ELSE GCD(b, a % b)
        RECURSIVE IsPowerOfTwo(_)
        IsPowerOfTwo(n) == n = 1 \/ (n % 2 = 0 /\ IsPowerOfTwo(n \div 2))
        Exact(z) == z.k = "num" /\ IsPowerOfTwo(z.d \div GCD(Abs(z.n), z.d))
        Fits(a, b) == Bits(Abs(a)) + Bits(Abs(b)) <= 30
    IN /\ Exact(x) /\ Exact(y)
       /\ Fits(x.n, y.n) /\ Fits(x.d, y.d)
       /\ Fits(2 * x.n, y.d) /\ Fits(2 * y.n, x.d)

\* sign, significand and exponent of a number that is not 0
ToBin(x) ==
    IF x.k = "bin" THEN x
    ELSE RoundQuotient(Sign(x.n), BigOf(Abs(x.n)), BigOf(x.d), 0)

\* A float64 that is a fraction of small numbers is written as that
\* fraction: odd is its significand without the low zero bits.
CanonOdd(x, low) ==
    LET odd == BigShr(x.d.m, low)
        e == x.d.e + low
    IN IF e >= 0 /\ BitLen(odd) + e <= 30 THEN Num(x.n * BigToInt(odd) * 2^e)
       ELSE IF e < 0 /\ e >= -10 /\ BitLen(odd) <= 30
            THEN Frac(x.n * BigToInt(odd), 2^(-e))
       ELSE x
Canon(x) ==
    LET RECURSIVE LowZeros(_)
        LowZeros(a) ==
            IF a[1] = 0 THEN 15 + LowZeros(Tail(a))
            ELSE IF a[1] % 2 = 0 THEN 1 + LowZeros(<<a[1] \div 2>>)
            ELSE 0
    IN IF x.k # "bin" THEN x ELSE CanonOdd(x, LowZeros(x.d.m))

\* the sum of two float64 that are not 0: a and b are the significands
\* brought to the lower exponent e
BinAddAligned(bx, by, a, b, e) ==
    IF bx.n = by.n THEN Round53(bx.n, BigAdd(a, b, 0), e)
    ELSE IF BigCmp(a, b) = 0 THEN Num(0)
    ELSE IF BigCmp(a, b) > 0 THEN Round53(bx.n, BigSub(a, b), e)
    ELSE Round53(by.n, BigSub(b, a), e)
BinAdd(bx, by) ==
    BinAddAligned(bx, by,
                  BigShl(bx.d.m, bx.d.e - Min(bx.d.e, by.d.e)),
                  BigShl(by.d.m, by.d.e - Min(bx.d.e, by.d.e)),
                  Min(bx.d.e, by.d.e))

\* the product and the quotient of two float64 that are not 0
BinMul(bx, by) == Round53(bx.n * by.n, BigMul(bx.d.m, by.d.m), bx.d.e + by.d.e)
BinDiv(bx, by) == RoundQuotient(bx.n * by.n, bx.d.m, by.d.m, bx.d.e - by.d.e)

\* x + y
FAdd(x, y) ==
    IF x.k = "nan" \/ y.k = "nan" THEN NaN
    ELSE IF x.k = "inf" /\ y.k = "inf" THEN (IF x.n = y.n THEN x ELSE NaN)
    ELSE IF x.k = "inf" THEN x
    ELSE IF y.k = "inf" THEN y
    ELSE IF Plain(x, y)
         THEN (IF x.d = y.d THEN Frac(x.n + y.n, x.d)
               ELSE Frac(x.n * y.d + y.n * x.d, x.d * y.d))
    ELSE IF x.n = 0 THEN y
    ELSE IF y.n = 0 THEN x
    ELSE Canon(BinAdd(ToBin(x), ToBin(y)))

\* x - y
FSub(x, y) == FAdd(x, [y EXCEPT !.n = -y.n])

\* x * y
FMul(x, y) ==
    IF x.k = "nan" \/ y.k = "nan" THEN NaN
    ELSE IF x.k = "inf" \/ y.k = "inf"
         THEN (IF x.n = 0 \/ y.n = 0 THEN NaN ELSE Inf(Sign(x.n) * Sign(y.n)))
    ELSE IF Plain(x, y) THEN Frac(x.n * y.n, x.d * y.d)
    ELSE IF x.n = 0 \/ y.n = 0 THEN Num(0)
    ELSE Canon(BinMul(ToBin(x), ToBin(y)))

\* x / y on float64 Series: a zero divisor gives nan or an infinity, no exception
FDiv(x, y) ==
    IF x.k = "nan" \/ y.k = "nan" THEN NaN
    ELSE IF x.k = "inf" THEN (IF y.k = "inf" THEN NaN
                              ELSE Inf(x.n * (IF y.n < 0 THEN -1 ELSE 1)))
    ELSE IF y.k = "inf" THEN Num(0)
    ELSE IF y.n = 0 THEN (IF x.n = 0 THEN NaN ELSE Inf(Sign(x.n)))
    ELSE IF Plain(x, y) THEN Frac(x.n * y.d * Sign(y.n), x.d * Abs(y.n))
    ELSE IF x.n = 0 THEN Num(0)
    ELSE Canon(BinDiv(ToBin(x), ToBin(y)))

\* x > y (x < y is y > x): False when either side is nan
FGt(x, y) ==
    /\ x.k # "nan" /\ y.k # "nan"
    /\ IF x.k = "inf" THEN x.n = 1 /\ y # x
       ELSE IF y.k = "inf" THEN y.n = -1
       ELSE IF Plain(x, y) THEN x.n * y.d > y.n * x.d
       ELSE FSub(x, y).n > 0

\* The same float64 value (nan is printed as nan on both sides).
FSame(x, y) ==
    IF x = y THEN TRUE
    ELSE IF x.k \in {"nan", "inf"} \/ y.k \in {"nan", "inf"} THEN FALSE
    ELSE IF Plain(x, y) THEN x.n * y.d = y.n * x.d
    ELSE IF x.n = 0 \/ y.n = 0 THEN x.n = 0 /\ y.n = 0
    ELSE ToBin(x) = ToBin(y)

\* Series.sum(): nan entries are skipped, the empty sum is 0.  The entries
\* are added up block by block; they are whole amounts, whose sum is the
\* same in every order of the additions.
RECURSIVE Block(_, _)
Block(rows, n) ==
    IF n = 0 \/ rows = {} THEN << >>
    ELSE <<CHOOSE i \in rows : TRUE>> \o Block(rows \ {CHOOSE i \in rows : TRUE}, n - 1)

RECURSIVE BlockSum(_, _)
BlockSum(series, block) ==
    IF block = << >> THEN Num(0)
    ELSE IF series[block[1]].k = "nan" THEN BlockSum(series, Tail(block))
    ELSE FAdd(series[block[1]], BlockSum(series, Tail(block)))

RECURSIVE SumOver(_, _)
SumBlocks(series, rows, block) ==
    FAdd(BlockSum(series, block), SumOver(series, rows \ {block[t] : t \in DOMAIN block}))
SumOver(series, rows) ==
    IF rows = {} THEN Num(0) ELSE SumBlocks(series, rows, Block(rows, 16))

SeriesSum(series) == SumOver(series, DOMAIN series)

\* _GLOBAL_DATA = {}: the first _GLOBAL_DATA[...] of a tool raises KeyError
NoData(data) == data = << >>

\* on=['site_id', 'patient_id', 'visit_type']
Key(row) == <<row.site_id, row.patient_id, row.visit_type>>

\* visits_df[visits_df['status'] == status]: the labels of the rows kept
WithStatus(visits_df, status) == {i \in DOMAIN visits_df : visits_df[i].status = status}

\* pd.merge(left, right, on=key, how='inner'): one row for every pair of a
\* left row and a right row with equal keys; l and r are their labels.
InnerMerge(left_df, left_rows, right_df) ==
    {[l |-> x[1], r |-> x[2], _merge |-> "both"] :
        x \in {y \in left_rows \X (DOMAIN right_df) : Key(left_df[y[1]]) = Key(right_df[y[2]])}}

\* pd.merge(left, right, on=key, how='outer', indicator=True): the inner
\* rows, and one row for every row of either side whose key the other
\* side lacks (label 0 stands for the columns filled with NaN).
OuterMerge(left_df, left_rows, right_df) ==
    InnerMerge(left_df, left_rows, right_df)
    \cup {[l |-> i, r |-> 0, _merge |-> "left_only"] :
            i \in {i \in left_rows : \A j \in DOMAIN right_df : Key(left_df[i]) # Key(right_df[j])}}
    \cup {[l |-> 0, r |-> j, _merge |-> "right_only"] :
            j \in {j \in DOMAIN right_df : \A i \in left_rows : Key(left_df[i]) # Key(right_df[j])}}

\* merged[merged['_merge'] == 'left_only']
unpaid_visits_NotBoth(merged) == {row \in merged : row._merge # "both"}
unpaid_visits(merged) == {row \in merged : row._merge = "left_only"}

\* merged[merged['_merge'] == 'right_only']
unmatched_payments(merged) == {row \in merged : row._merge = "right_only"}

\* payments_df[payments_df.duplicated(subset=key, keep=False)]
duplicates(payments_df) ==
    {j \in DOMAIN payments_df :
        \E j2 \in DOMAIN payments_df : j2 # j /\ Key(payments_df[j2]) = Key(payments_df[j])}

\* frame['amount_usd'] of a merge result
MergedAmounts(merged, payments_df) ==
    [row \in merged |-> IF row.r = 0 THEN NaN ELSE Num(payments_df[row.r].amount_usd)]

\* payments_df['amount_usd'], restricted to the given rows
Amounts(payments_df, rows) == [j \in rows |-> Num(payments_df[j].amount_usd)]


\* The whole number nearest to scale times the float64 x, a tie to the even
\* one: what the decimal formats and rint give, which work on the value the
\* float64 has and not on the fraction it came from.
NearestBin(b, scale) ==
    LET a == BigMulSmall(b.d.m, scale)
    IN b.n * BigToInt(IF b.d.e >= 0 THEN BigShl(a, b.d.e) ELSE BigShrRound(a, -b.d.e))
Nearest(x, scale) ==
    IF Plain(x, Num(2 * scale))
    THEN LET scaled == scale * x.n
             floor == scaled \div x.d
             twice == 2 * (scaled - floor * x.d)
         IN IF twice > x.d \/ (twice = x.d /\ floor % 2 = 1) THEN floor + 1 ELSE floor
    ELSE NearestBin(ToBin(x), scale)

\* the format :,.2f : the nearest hundredth of the float64; nan and the
\* infinities stay what they are.
RoundHundredths(x) == IF x.k \in {"nan", "inf"} THEN x ELSE Frac(Nearest(x, 100), 100)

\* the format :.1f : the nearest tenth of the float64
RoundTenths(x) == IF x.k \in {"nan", "inf"} THEN x ELSE Frac(Nearest(x, 10), 10)

\* Series.round(2): numpy multiplies by 100, takes rint and divides by 100
\* (the quotient is the float64 nearest to the fraction)
Round2(x) ==
    IF x.k \in {"nan", "inf"} THEN x ELSE Frac(Nearest(FMul(x, Num(100)), 1), 100)

(***************************************************************************)
(* ReconciliationTool._run                                                 *)
(***************************************************************************)
\* avg_payment = payments_df['amount_usd'].mean(): nan entries are skipped,
\* the mean of nothing is nan
avg_payment(payments_df) ==
    LET series == Amounts(payments_df, DOMAIN payments_df)
        present == {i \in DOMAIN series : series[i].k # "nan"}
    IN FDiv(SeriesSum(series), Num(Cardinality(present)))

\* unpaid_amount = len(unpaid_visits) * avg_payment
unpaid_amount(unpaid, payments_df) == FMul(Num(Cardinality(unpaid)), avg_payment(payments_df))

\* duplicate_amount = duplicates['amount_usd'].sum() / 2
duplicate_amount_Sum(payments_df) == SeriesSum(Amounts(payments_df, duplicates(payments_df)))
duplicate_amount(payments_df) == FDiv(SeriesSum(Amounts(payments_df, duplicates(payments_df))), Num(2))

\* len(duplicates) // 2
duplicates_count(payments_df) == Cardinality(duplicates(payments_df)) \div 2

\* sf_payments = pd.merge(screen_failures, payments_df, on=key, how='inner')
sf_payments(visits_df, payments_df) ==
    InnerMerge(visits_df, WithStatus(visits_df, "screen_failure"), payments_df)

\* sf_amount = sf_payments['amount_usd'].sum()
sf_amount(visits_df, payments_df) ==
    SeriesSum(MergedAmounts(sf_payments(visits_df, payments_df), payments_df))

ReconciliationTool_run(data) ==
    IF NoData(data) THEN [error |-> "Error during reconciliation: 'visits'"]
    ELSE LET visits_df == data.visits
             payments_df == data.payments
             merged == OuterMerge(visits_df, WithStatus(visits_df, "completed"), payments_df)
             unpaid == unpaid_visits(merged)
             unmatched == unmatched_payments(merged)
         IN [error |-> "",
             unpaid_count |-> Cardinality(unpaid),
             unpaid_amount |-> RoundHundredths(unpaid_amount(unpaid, payments_df)),
             unmatched_count |-> Cardinality(unmatched),
             unmatched_amount |-> RoundHundredths(SeriesSum(MergedAmounts(unmatched, payments_df))),
             sf_count |-> Cardinality(sf_payments(visits_df, payments_df)),
             sf_amount |-> RoundHundredths(sf_amount(visits_df, payments_df)),
             duplicates_count |-> duplicates_count(payments_df),
             duplicate_amount |-> RoundHundredths(duplicate_amount(payments_df)),
             total_exposure |-> RoundHundredths(
                 FAdd(FAdd(unpaid_amount(unpaid, payments_df), sf_amount(visits_df, payments_df)),
                      duplicate_amount(payments_df)))]

(***************************************************************************)
(* ContractComplianceTool._run                                             *)
(***************************************************************************)
\* pd.merge(payments_df, contracts_df, on='site_id', how='left'): one row
\* for every pair of a payment and a contract of its site, and one row
\* with NaN fees (c = 0) for a payment whose site has no contract.
LeftMergeContracts(payments_df, contracts_df) ==
    {[p |-> x[1], c |-> x[2]] :
        x \in {y \in (DOMAIN payments_df) \X (DOMAIN contracts_df) :
                  payments_df[y[1]].site_id = contracts_df[y[2]].site_id}}
    \cup {[p |-> j, c |-> 0] :
            j \in {j \in DOMAIN payments_df :
                      \A c \in DOMAIN contracts_df : contracts_df[c].site_id # payments_df[j].site_id}}

\* row[column] of a merged row, for a fee column of the contract side
Fee(row, contracts_df, column) == IF row.c = 0 THEN NaN ELSE Num(contracts_df[row.c][column])

get_expected_amount(row, payments_df, contracts_df) ==
    LET visit_type == payments_df[row.p].visit_type
    IN IF visit_type = "screening" THEN Fee(row, contracts_df, "screening_fee_usd")
       ELSE IF visit_type = "baseline" THEN Fee(row, contracts_df, "baseline_fee_usd")
       ELSE IF visit_type = "month_3" THEN Fee(row, contracts_df, "month3_fee_usd")
       ELSE IF visit_type = "month_6" THEN Fee(row, contracts_df, "month6_fee_usd")
       ELSE IF visit_type = "month_12" THEN Fee(row, contracts_df, "month12_fee_usd")
       ELSE IF visit_type = "closeout" THEN Fee(row, contracts_df, "closeout_fee_usd")
       ELSE Num(0)

\* merged['variance'] = merged['amount_usd'] - merged['expected_amount']
variance(row, payments_df, contracts_df) ==
    FSub(Num(payments_df[row.p].amount_usd), get_expected_amount(row, payments_df, contracts_df))

\* (variance / base * 100)
Percent(amount, base) == FMul(FDiv(amount, base), Num(100))

\* merged['variance_pct'] = (merged['variance'] / merged['expected_amount'] * 100).round(2)
variance_pct(row, payments_df, contracts_df) ==
    Round2(Percent(variance(row, payments_df, contracts_df),
                   get_expected_amount(row, payments_df, contracts_df)))

\* violations = merged[abs(merged['variance']) > 1]
violations_AtLeast(merged, payments_df, contracts_df) ==
    {row \in merged : ~ FGt(Num(1), LET v == variance(row, payments_df, contracts_df) IN [v EXCEPT !.n = Abs(v.n)])
                      /\ variance(row, payments_df, contracts_df).k # "nan"}
violations(merged, payments_df, contracts_df) ==
    {row \in merged : FGt(LET v == variance(row, payments_df, contracts_df) IN [v EXCEPT !.n = Abs(v.n)], Num(1))}

\* overcharges = violations[violations['variance'] > 0]
overcharges_OfMerged(found, payments_df, contracts_df) ==
    {row \in LeftMergeContracts(payments_df, contracts_df) :
        FGt(variance(row, payments_df, contracts_df), Num(0))}
overcharges(found, payments_df, contracts_df) ==
    {row \in found : FGt(variance(row, payments_df, contracts_df), Num(0))}

\* undercharges = violations[violations['variance'] < 0]
undercharges(found, payments_df, contracts_df) ==
    {row \in found : FGt(Num(0), variance(row, payments_df, contracts_df))}

\* frame['variance'].sum()
VarianceSum(rows, payments_df, contracts_df) ==
    SeriesSum([row \in rows |-> variance(row, payments_df, contracts_df)])

ContractComplianceTool_run(data) ==
    IF NoData(data) THEN [error |-> "Error checking contract compliance: 'contracts'"]
    ELSE LET payments_df == data.payments
             contracts_df == data.contracts
             merged == LeftMergeContracts(payments_df, contracts_df)
             found == violations(merged, payments_df, contracts_df)
             over == overcharges(found, payments_df, contracts_df)
             under == undercharges(found, payments_df, contracts_df)
         IN IF Cardinality(merged) = 0
            THEN [error |-> "Error checking contract compliance: division by zero"]
            ELSE [error |-> "",
                  checked |-> Cardinality(merged),
                  violations |-> found,
                  violation_rate |-> RoundTenths(Percent(Num(Cardinality(found)),
                                                         Num(Cardinality(merged)))),
                  overcharges |-> over,
                  overcharge_total |-> RoundHundredths(VarianceSum(over, payments_df, contracts_df)),
                  undercharges |-> under,
                  undercharge_total |-> RoundHundredths(LET total == VarianceSum(under, payments_df, contracts_df)
                                                        IN [total EXCEPT !.n = Abs(total.n)]),
                  net_impact |-> RoundHundredths(VarianceSum(found, payments_df, contracts_df)),
                  variance_pct |-> [row \in merged |-> variance_pct(row, payments_df, contracts_df)]]


(***************************************************************************)
(* BudgetAnalysisTool._run                                                 *)
(***************************************************************************)
\* site_spend = payments_df.groupby('site_id')['amount_usd'].sum()
site_spend(payments_df) ==
    [site \in {payments_df[j].site_id : j \in DOMAIN payments_df} |->
        SeriesSum(Amounts(payments_df, {j \in DOMAIN payments_df : payments_df[j].site_id = site}))]

\* pd.merge(budgets_df, site_spend, on='site_id', how='left') and
\* fillna(0): the spend of the site of budget row b
actual_spend(b, budgets_df, payments_df) ==
    IF budgets_df[b].site_id \in DOMAIN site_spend(payments_df)
    THEN site_spend(payments_df)[budgets_df[b].site_id]
    ELSE Num(0)

\* budget_analysis['variance'] = actual_spend - allocated_budget_usd
budget_variance(b, budgets_df, payments_df) ==
    FSub(actual_spend(b, budgets_df, payments_df), Num(budgets_df[b].allocated_budget_usd))

\* budget_analysis['variance_pct'] = (variance / allocated_budget_usd * 100).round(2)
budget_variance_pct(b, budgets_df, payments_df) ==
    Round2(Percent(budget_variance(b, budgets_df, payments_df),
                   Num(budgets_df[b].allocated_budget_usd)))

\* budget_analysis[budget_analysis['variance_pct'] > 20]
overbudget_sites(budgets_df, payments_df) ==
    {b \in DOMAIN budgets_df : FGt(budget_variance_pct(b, budgets_df, payments_df), Num(20))}

\* budget_analysis[budget_analysis['variance_pct'] < -20]
underbudget_sites(budgets_df, payments_df) ==
    {b \in DOMAIN budgets_df : FGt(Num(-20), budget_variance_pct(b, budgets_df, payments_df))}

BudgetAnalysisTool_run(data) ==
    IF NoData(data) THEN [error |-> "Error analyzing budget: 'budgets'"]
    ELSE LET budgets_df == data.budgets
             payments_df == data.payments
         IN [error |-> "",
             budget_analysis |-> [b \in DOMAIN budgets_df |->
                 [site_id |-> budgets_df[b].site_id,
                  allocated_budget_usd |-> budgets_df[b].allocated_budget_usd,
                  actual_spend |-> actual_spend(b, budgets_df, payments_df),
                  variance |-> budget_variance(b, budgets_df, payments_df),
                  variance_pct |-> budget_variance_pct(b, budgets_df, payments_df)]],
             total_allocated |-> RoundHundredths(SeriesSum(
                 [b \in DOMAIN budgets_df |-> Num(budgets_df[b].allocated_budget_usd)])),
             total_spent |-> RoundHundredths(SeriesSum(site_spend(payments_df))),
             overall_variance |-> RoundHundredths(SeriesSum(
                 [b \in DOMAIN budgets_df |-> budget_variance(b, budgets_df, payments_df)])),
             overbudget_sites |-> overbudget_sites(budgets_df, payments_df),
             underbudget_sites |-> underbudget_sites(budgets_df, payments_df)]

(***************************************************************************)
(* ReportGenerationTool._run                                               *)
(***************************************************************************)
\* total_exposure = unpaid_amount + duplicate_amount + sf_amount
total_exposure(unpaid, duplicate, disallowed) == FAdd(FAdd(unpaid, duplicate), disallowed)

\* budget_analysis[budget_analysis['variance_pct'] > 20], variance_pct not rounded
report_overbudget_sites(budgets_df, payments_df) ==
    {b \in DOMAIN budgets_df :
        FGt(Percent(budget_variance(b, budgets_df, payments_df),
                    Num(budgets_df[b].allocated_budget_usd)), Num(20))}

ReportGenerationTool_run(data) ==
    IF NoData(data) THEN [error |-> "Error generating report: 'visits'"]
    ELSE LET visits_df == data.visits
             payments_df == data.payments
             merged == OuterMerge(visits_df, WithStatus(visits_df, "completed"), payments_df)
             unpaid == unpaid_visits(merged)
         IN [error |-> "",
             total_exposure |-> RoundHundredths(
                 total_exposure(unpaid_amount(unpaid, payments_df),
                                duplicate_amount(payments_df),
                                sf_amount(visits_df, payments_df))),
             unpaid_count |-> Cardinality(unpaid),
             unpaid_amount |-> RoundHundredths(unpaid_amount(unpaid, payments_df)),
             duplicates_count |-> duplicates_count(payments_df),
             sf_count |-> Cardinality(sf_payments(visits_df, payments_df)),
             violations_count |-> Cardinality(
                 violations(LeftMergeContracts(payments_df, data.contracts),
                            payments_df, data.contracts)),
             overbudget_count |-> Cardinality(report_overbudget_sites(data.budgets, payments_df))]

(***************************************************************************)
(* The crew runs the four tools one after the other on the tables that     *)
(* set_global_data stored (DataValidationTool, which runs first, only      *)
(* reads them).                                                            *)
(***************************************************************************)
RunReconciliationTool ==
    /\ Len(tool_out) = 0
    /\ tool_out' = Append(tool_out, ReconciliationTool_run(dataset))
    /\ UNCHANGED <<ovars, dataset>>

RunContractComplianceTool ==
    /\ Len(tool_out) = 1
    /\ tool_out' = Append(tool_out, ContractComplianceTool_run(dataset))
    /\ UNCHANGED <<ovars, dataset>>

RunBudgetAnalysisTool ==
    /\ Len(tool_out) = 2
    /\ tool_out' = Append(tool_out, BudgetAnalysisTool_run(dataset))
    /\ UNCHANGED <<ovars, dataset>>

RunReportGenerationTool ==
    /\ Len(tool_out) = 3
    /\ tool_out' = Append(tool_out, ReportGenerationTool_run(dataset))
    /\ UNCHANGED <<ovars, dataset>>

ToolNext ==
    \/ RunReconciliationTool
    \/ RunContractComplianceTool
    \/ RunBudgetAnalysisTool
    \/ RunReportGenerationTool


(***************************************************************************)
(* Reconciliation over bounded visit and payment tables                    *)
(***************************************************************************)
\* Rows of the visit table and of the payment table a dataset may hold.
MaxVisits == 2
MaxPayments == 4

\* All tables of at most n rows drawn from the given rows.
Tables(rows, n) == UNION {[1..m -> rows] : m \in 0..n}

ReconVisitRows ==
    [site_id : {"SITE_001"}, patient_id : {"P-0001", "P-0002"},
     visit_type : {"screening"}, status : {"completed", "screen_failure"}]

ReconPaymentRows ==
    [site_id : {"SITE_001"}, patient_id : {"P-0001", "P-0002"},
     visit_type : {"screening"}, amount_usd : {1500, 3000}]

\* A contract row: the fee schedule of data_service with the given screening fee.
Contract(site_id, screening_fee_usd) ==
    [site_id |-> site_id, screening_fee_usd |-> screening_fee_usd,
     baseline_fee_usd |-> 3000, month3_fee_usd |-> 2000, month6_fee_usd |-> 2000,
     month12_fee_usd |-> 2500, closeout_fee_usd |-> 3500]

\* A budget row.
Budget(site_id, allocated_budget_usd) ==
    [site_id |-> site_id, allocated_budget_usd |-> allocated_budget_usd]

\* A long ledger: a completed visit that was never paid, and LedgerLen
\* payments for one screen-failure visit, the first of 7 dollars and the
\* others of 1500.  The mean of its amounts is no float64 fraction of small
\* numbers.
LedgerLen == 200

ReconInit ==
    /\ Constructed
    /\ \/ \E visits_df \in Tables(ReconVisitRows, MaxVisits),
             payments_df \in Tables(ReconPaymentRows, MaxPayments) :
               dataset = [visits |-> visits_df, payments |-> payments_df,
                          contracts |-> <<Contract("SITE_001", 1500)>>,
                          budgets |-> <<Budget("SITE_001", 2000)>>]
       \/ dataset =
             [visits |-> <<[site_id |-> "SITE_001", patient_id |-> "P-0001",
                            visit_type |-> "screening", status |-> "completed"],
                           [site_id |-> "SITE_001", patient_id |-> "P-0002",
                            visit_type |-> "screening", status |-> "screen_failure"]>>,
              payments |-> [j \in 1..LedgerLen |->
                              [site_id |-> "SITE_001", patient_id |-> "P-0002",
                               visit_type |-> "screening",
                               amount_usd |-> IF j = 1 THEN 7 ELSE 1500]],
              contracts |-> <<Contract("SITE_001", 1500)>>,
              budgets |-> <<Budget("SITE_001", 2000)>>]
    /\ tool_out = << >>

ReconSpec == ReconInit /\ [][ToolNext]_vars

ReconRan == Len(tool_out) >= 1
ReportRan == Len(tool_out) >= 4
Completed == WithStatus(dataset.visits, "completed")
PaymentKeys == {Key(dataset.payments[j]) : j \in DOMAIN dataset.payments}
PaymentsOfKey(key) == {j \in DOMAIN dataset.payments : Key(dataset.payments[j]) = key}

\* C11: the number of unpaid visits the reconciliation reports, plus the
\* number of completed visits whose key occurs at least once among the
\* payments, is the number of completed visits, also when a key has
\* several payments.
C11_UnpaidPlusMatched ==
    ReconRan =>
        tool_out[1].unpaid_count
          + Cardinality({i \in Completed : Key(dataset.visits[i]) \in PaymentKeys})
        = Cardinality(Completed)

\* A completed visit with several payments beside a completed visit with none.
C11_Witness ==
    /\ ReconRan
    /\ \E i \in Completed : Cardinality(PaymentsOfKey(Key(dataset.visits[i]))) >= 2
    /\ tool_out[1].unpaid_count >= 1


DuplicatedKeys == {key \in PaymentKeys : Cardinality(PaymentsOfKey(key)) >= 2}

\* C12: the duplicate count the reconciliation and the report give is the
\* number of distinct keys that occur at least twice among the payments,
\* whatever the sizes of the groups.
C12_DuplicateGroupsCountedOnce ==
    /\ ReconRan => tool_out[1].duplicates_count = Cardinality(DuplicatedKeys)
    /\ ReportRan => tool_out[4].duplicates_count = Cardinality(DuplicatedKeys)

PairsOfEqualAmount ==
    \A key \in DuplicatedKeys :
        /\ Cardinality(PaymentsOfKey(key)) = 2
        /\ \A j, j2 \in PaymentsOfKey(key) :
              dataset.payments[j].amount_usd = dataset.payments[j2].amount_usd

\* C13: when every duplicated key has exactly two payments of the same
\* amount, the reconciliation reports one duplicate per such key and a
\* duplicate amount that is the sum, over those keys, of one payment's
\* amount; payments with a unique key add nothing.
C13_PairsCountedOnce ==
    (ReconRan /\ PairsOfEqualAmount) =>
        /\ tool_out[1].duplicates_count = Cardinality(DuplicatedKeys)
        /\ FSame(tool_out[1].duplicate_amount,
                 SeriesSum([key \in DuplicatedKeys |->
                     Num(dataset.payments[CHOOSE j \in PaymentsOfKey(key) : TRUE].amount_usd)]))

\* Two payments of 3000 with one key, and a payment with a key of its own.
C13_Witness ==
    /\ ReconRan /\ PairsOfEqualAmount
    /\ PaymentKeys # DuplicatedKeys
    /\ tool_out[1].duplicates_count = 1
    /\ FSame(tool_out[1].duplicate_amount, Num(3000))

ScreenFailureKeys == {Key(dataset.visits[i]) : i \in WithStatus(dataset.visits, "screen_failure")}
DisallowedPayments == {j \in DOMAIN dataset.payments : Key(dataset.payments[j]) \in ScreenFailureKeys}

\* C14: the disallowed-payment count is the number of payments whose key
\* is the key of a screen_failure visit, and the disallowed amount is the
\* sum of the amounts of exactly those payments.
C14_DisallowedPayments ==
    ReconRan =>
        /\ tool_out[1].sf_count = Cardinality(DisallowedPayments)
        /\ FSame(tool_out[1].sf_amount, SeriesSum(Amounts(dataset.payments, DisallowedPayments)))

\* C15: the total exposure of the reconciliation and of the report is the
\* unpaid estimate (unpaid count times the mean of all payment amounts)
\* plus the disallowed amount plus the duplicate estimate, contract
\* variances and over-budget amounts take no part in it, and the two
\* tools give the same figure.
C15_TotalExposure ==
    /\ ReconRan =>
          FSame(tool_out[1].total_exposure,
                RoundHundredths(FAdd(FAdd(
                    FMul(Num(tool_out[1].unpaid_count),
                         avg_payment(dataset.payments)),
                    sf_amount(dataset.visits, dataset.payments)),
                    duplicate_amount(dataset.payments))))
    /\ ReportRan => FSame(tool_out[4].total_exposure, tool_out[1].total_exposure)


(***************************************************************************)
(* Contract compliance over bounded payment and contract tables            *)
(***************************************************************************)
\* Rows of the payment table of a dataset given to the compliance check.
MaxCharges == 2

\* SITE_002 has no contract; "unscheduled" is no visit type of the protocol.
ComplianceInit ==
    /\ Constructed
    /\ \E payments_df \in Tables([site_id : {"SITE_001", "SITE_002"}, patient_id : {"P-0001"},
                                  visit_type : {"screening", "baseline", "unscheduled"},
                                  amount_usd : {1498, 1500, 1501, 1502, 3000}], MaxCharges),
          contracts_df \in {<< >>, <<Contract("SITE_001", 1500)>>, <<Contract("SITE_001", 0)>>} :
            dataset = [visits |-> << >>, payments |-> payments_df,
                       contracts |-> contracts_df, budgets |-> << >>]
    /\ tool_out = << >>

ComplianceSpec == ComplianceInit /\ [][ToolNext]_vars

ComplianceRan == Len(tool_out) >= 2
ComplianceAnswered == ComplianceRan /\ tool_out[2].error = ""
Checked == LeftMergeContracts(dataset.payments, dataset.contracts)

\* C16: the violations of a compliance check split into overcharges
\* (variance > 0) and undercharges (variance < 0): no payment is both and
\* the number of violations is the sum of the two counts.
C16_ViolationsPartition ==
    ComplianceAnswered =>
        /\ tool_out[2].overcharges \cap tool_out[2].undercharges = {}
        /\ tool_out[2].overcharges \cup tool_out[2].undercharges = tool_out[2].violations
        /\ Cardinality(tool_out[2].violations)
             = Cardinality(tool_out[2].overcharges) + Cardinality(tool_out[2].undercharges)
        /\ \A row \in tool_out[2].overcharges :
              FGt(variance(row, dataset.payments, dataset.contracts), Num(0))
        /\ \A row \in tool_out[2].undercharges :
              FGt(Num(0), variance(row, dataset.payments, dataset.contracts))

\* An overcharge and an undercharge in one check.
C16_Witness ==
    /\ ComplianceAnswered
    /\ tool_out[2].overcharges # {}
    /\ tool_out[2].undercharges # {}

ProtocolVisitTypes == {"screening", "baseline", "month_3", "month_6", "month_12", "closeout"}
FeeColumnOf ==
    [visit_type \in ProtocolVisitTypes |->
        CASE visit_type = "screening" -> "screening_fee_usd"
          [] visit_type = "baseline" -> "baseline_fee_usd"
          [] visit_type = "month_3" -> "month3_fee_usd"
          [] visit_type = "month_6" -> "month6_fee_usd"
          [] visit_type = "month_12" -> "month12_fee_usd"
          [] visit_type = "closeout" -> "closeout_fee_usd"]
HasContractedFee(row) == row.c # 0 /\ dataset.payments[row.p].visit_type \in ProtocolVisitTypes
ContractedFee(row) == dataset.contracts[row.c][FeeColumnOf[dataset.payments[row.p].visit_type]]
Difference(row) == dataset.payments[row.p].amount_usd - ContractedFee(row)

\* C17: a payment is a violation exactly when its amount and the fee its
\* site's contract sets for its visit type differ by more than 1 (a
\* difference of 0 or of 1 is none), and the net impact is the signed sum
\* of the differences of the violations only.
C17_Threshold ==
    ComplianceAnswered =>
        /\ \A row \in Checked : HasContractedFee(row) =>
              (row \in tool_out[2].violations <=> Abs(Difference(row)) > 1)
        /\ (\A row \in Checked : HasContractedFee(row)) =>
              FSame(tool_out[2].net_impact,
                    SeriesSum([row \in {r \in Checked : Abs(Difference(r)) > 1} |->
                                  Num(Difference(row))]))

\* A payment 1 above its fee beside a payment 2 above its fee.
C17_Witness ==
    /\ ComplianceAnswered
    /\ \A row \in Checked : HasContractedFee(row)
    /\ \E row \in Checked : Difference(row) = 1 /\ row \notin tool_out[2].violations
    /\ \E row \in Checked : Difference(row) = 2 /\ row \in tool_out[2].violations

\* C18: a payment whose site has no contract is an error of the check or a
\* finding of it, never left out of the violations as if it had been paid
\* at the contracted rate.
C18_UnknownSiteSurfaced ==
    ComplianceRan =>
        \A row \in Checked : row.c = 0 =>
            \/ tool_out[2].error # ""
            \/ row \in tool_out[2].violations

ExpectedZero(row) ==
    get_expected_amount(row, dataset.payments, dataset.contracts) = Num(0)

\* C19: a payment whose expected fee is zero (a fee of 0 in the contract,
\* or a visit type outside the protocol) gets no infinite or undefined
\* variance percentage and is counted neither as an overcharge nor as an
\* undercharge.
C19_ZeroFeeNotCharged ==
    ComplianceAnswered =>
        \A row \in Checked : ExpectedZero(row) =>
            /\ tool_out[2].variance_pct[row].k = "num"
            /\ row \notin tool_out[2].overcharges \cup tool_out[2].undercharges


(***************************************************************************)
(* Budget analysis over bounded budget and payment tables                  *)
(***************************************************************************)
\* Rows of the budget table and of the payment table of a dataset given
\* to the budget analysis.
MaxBudgets == 2
MaxSpends == 2

\* site_id is the key of the budget table: one row per site.
BudgetInit ==
    /\ Constructed
    /\ \E budgets_df \in
            {t \in Tables([site_id : {"SITE_001", "SITE_002"},
                           allocated_budget_usd : {0, 10000, 25000}], MaxBudgets) :
                \A b, b2 \in DOMAIN t : t[b].site_id = t[b2].site_id => b = b2},
          payments_df \in
            Tables([site_id : {"SITE_001", "SITE_002"}, patient_id : {"P-0001"},
                    visit_type : {"baseline"},
                    amount_usd : {8000, 12000, 12001, 13000, 19999, 30001}], MaxSpends) :
            dataset = [visits |-> << >>, payments |-> payments_df,
                       contracts |-> << >>, budgets |-> budgets_df]
    /\ tool_out = << >>

BudgetSpec == BudgetInit /\ [][ToolNext]_vars

BudgetRan == Len(tool_out) >= 3
RECURSIVE Total(_, _)
Total(amount, rows) ==
    IF rows = {} THEN 0
    ELSE LET j == CHOOSE j \in rows : TRUE IN amount[j] + Total(amount, rows \ {j})
SpendOfSite(site) ==
    Total([j \in DOMAIN dataset.payments |-> dataset.payments[j].amount_usd],
          {j \in DOMAIN dataset.payments : dataset.payments[j].site_id = site})

\* C20: every site of the budget table with an allocation above 0 appears
\* with the sum of its payments as spend (0 when it has none), is listed
\* over budget exactly when (spend - allocated) / allocated * 100 > 20 and
\* under budget exactly when that percentage is < -20, and is never in
\* both lists.
C20_BudgetLists ==
    BudgetRan =>
        \A b \in DOMAIN dataset.budgets :
            LET allocated == dataset.budgets[b].allocated_budget_usd
                spend == SpendOfSite(dataset.budgets[b].site_id)
            IN allocated > 0 =>
                /\ tool_out[3].budget_analysis[b].actual_spend = Num(spend)
                /\ b \in tool_out[3].overbudget_sites
                      <=> (spend - allocated) * 100 > 20 * allocated
                /\ b \in tool_out[3].underbudget_sites
                      <=> (spend - allocated) * 100 < (-20) * allocated
                /\ ~ (b \in tool_out[3].overbudget_sites /\ b \in tool_out[3].underbudget_sites)


\* C21: for every site with an allocation above 0 the rounded variance_pct
\* of the budget analysis has the sign of the variance: positive when the
\* site spent more than allocated, negative when less, zero when equal.
C21_PercentSign ==
    BudgetRan =>
        \A b \in DOMAIN dataset.budgets :
            dataset.budgets[b].allocated_budget_usd > 0 =>
                /\ tool_out[3].budget_analysis[b].variance_pct.k = "num"
                /\ Sign(tool_out[3].budget_analysis[b].variance_pct.n)
                     = Sign(SpendOfSite(dataset.budgets[b].site_id)
                            - dataset.budgets[b].allocated_budget_usd)

BudgetSites == {dataset.budgets[b].site_id : b \in DOMAIN dataset.budgets}
PaidSites == {dataset.payments[j].site_id : j \in DOMAIN dataset.payments}

\* C22: a site with payments and no budget row is not dropped from the
\* budget analysis: the analysis fails, or the site is among the per-site
\* results and among the over-budget sites.
C22_UnbudgetedSiteReported ==
    BudgetRan =>
        \A site \in PaidSites \ BudgetSites :
            \/ tool_out[3].error # ""
            \/ \E b \in tool_out[3].overbudget_sites :
                  tool_out[3].budget_analysis[b].site_id = site


Defined(x) == x.k = "num"

\* C23: when the visit table or the payment table is empty the
\* reconciliation answers normally, every category has a count and a
\* defined amount, and the total exposure is a defined number.
C23_EmptyInput ==
    (ReconRan /\ (dataset.visits = << >> \/ dataset.payments = << >>)) =>
        /\ tool_out[1].error = ""
        /\ Defined(tool_out[1].unpaid_amount)
        /\ Defined(tool_out[1].unmatched_amount)
        /\ Defined(tool_out[1].sf_amount)
        /\ Defined(tool_out[1].duplicate_amount)
        /\ Defined(tool_out[1].total_exposure)


\* C29: the number of sites over budget in the report is the number of
\* over-budget sites the budget analysis found on the same tables, also
\* for a site whose percentage is within rounding distance of 20.
C29_SameOverBudgetCount ==
    (ReportRan /\ tool_out[3].error = "" /\ tool_out[4].error = "") =>
        tool_out[4].overbudget_count = Cardinality(tool_out[3].overbudget_sites)

\* C30: the overall variance of the budget analysis is its total spent
\* minus its total allocated, also when a payment belongs to a site
\* without a budget row.
C30_OverallVariance ==
    (BudgetRan /\ tool_out[3].error = "") =>
        FSame(tool_out[3].overall_variance,
              FSub(tool_out[3].total_spent, tool_out[3].total_allocated))


(***************************************************************************)
(* Stage progress of an investigation                                      *)
(***************************************************************************)
\* Stage j as its completion handler leaves it.
DoneStage(inv, j) ==
    /\ inv.agents[j] =
            [NewAgent(AgentConfigs[j]) EXCEPT
                !.status = COMPLETE, !.started_at = Now, !.completed_at = Now,
                !.current_activity = Some("Complete"),
                !.tasks_completed = inv.agents[j].tasks_completed]
    /\ Len(inv.agents[j].tasks_completed) = 1
    /\ inv.agents[j].tasks_completed[1].completed_at = Now
    /\ inv.agents[j].tasks_completed[1].task_name
           = [head |-> TaskDescriptions[j].head,
              len |-> Min(TaskDescriptions[j].len, TaskNameCap)]

\* Stage j as the handler of stage j - 1 (or run_investigation, for stage 1) leaves it.
StartedStage(inv, j) ==
    inv.agents[j] =
        [NewAgent(AgentConfigs[j]) EXCEPT
            !.status = RUNNING, !.started_at = Now,
            !.current_activity = IF j = 1 THEN Some("Starting data validation...") ELSE @]

\* C24: handling the completion of stage k appends exactly one record to
\* stage k, sets it complete with its completion timestamp, sets stage k+1
\* running with its start timestamp exactly when stage k is not the last
\* one, and changes no other stage: whenever the crew is between two
\* tasks, the stages before the current task are as their handlers left
\* them, the current one is started and the later ones are untouched.
C24_CompletionHandler ==
    \A i \in DOMAIN investigations :
        /\ pc[i] = "kickoff" =>
              \A j \in Stages :
                  /\ j < task[i] => DoneStage(investigations[i], j)
                  /\ j = task[i] => StartedStage(investigations[i], j)
                  /\ j > task[i] => investigations[i].agents[j] = NewAgent(AgentConfigs[j])
        /\ pc[i] = "L102" =>
              /\ Len(investigations[i].agents) = NumAgents
              /\ \A j \in Stages : DoneStage(investigations[i], j)

\* The handler of the last stage has returned.
C24_Witness ==
    \E i \in DOMAIN investigations :
        /\ pc[i] = "L102"
        /\ DoneStage(investigations[i], NumAgents)

\* C25: the stages run in the order of the crew: in every state a stage
\* that is running or complete follows only complete stages, and every
\* stage after a pending or running stage is pending.
C25_StageOrder ==
    \A i \in DOMAIN investigations :
        \A j, k \in Stages : j < k =>
            LET agents == investigations[i].agents
            IN  /\ agents[k].status \in {RUNNING, COMPLETE} => agents[j].status = COMPLETE
                /\ agents[j].status \in {PENDING, RUNNING} => agents[k].status = PENDING

\* Stage 3 is running between two complete and two pending stages.
C25_Witness ==
    \E i \in DOMAIN investigations :
        /\ investigations[i].agents[2].status = COMPLETE
        /\ investigations[i].agents[3].status = RUNNING
        /\ investigations[i].agents[4].status = PENDING

StatusMove(old, new) ==
    \/ new = old
    \/ old = PENDING /\ new = RUNNING
    \/ old = RUNNING /\ new \in {COMPLETE, ERROR}

\* C26: the status of a stage only moves from pending to running and from
\* running to complete or error: no step takes a stage back, or from
\* pending straight to complete.
C26_StatusMoves ==
    [][\A i \in DOMAIN investigations : \A k \in Stages :
          StatusMove(investigations[i].agents[k].status,
                     investigations'[i].agents[k].status)]_vars

\* The last stage is complete while run_investigation has not yet said so.
C26_Witness ==
    \E i \in DOMAIN investigations :
        /\ investigations[i].agents[NumAgents].status = COMPLETE
        /\ investigations[i].status = RUNNING

(***************************************************************************)
(* One investigation whose crew may hand task_callback a TaskOutput that   *)
(* has no description attribute                                            *)
(***************************************************************************)
\* task_callback takes '' for the description (str(task_output.description)
\* if hasattr(task_output, 'description') else ''), finds no agent for the
\* key and returns (lines 50-54)
RunTaskUnmapped(i) ==
    /\ pc[i] = "kickoff"
    /\ MappedAgent([head |-> "", len |-> 0]) = None
    /\ Len(reads[i]) \in {0, ToolReads[task[i]]}
    /\ \E len \in AnswerLens :
          task_output' = [task_output EXCEPT ![i] = EngineRun(reads[i], len)]
    /\ reads' = [reads EXCEPT ![i] = << >>]
    /\ pc' = [pc EXCEPT ![i] = AfterCallback(task[i])]
    /\ task' = [task EXCEPT ![i] = NextTask(task[i])]
    /\ resp' = NoResp
    /\ UNCHANGED <<investigations, GLOBAL_DATA, data_dict, exc, returned, rpc>>

SkipNext ==
    \/ StartStep(1)
    \/ ThreadStep(1)
    \/ RunTaskUnmapped(1) /\ UNCHANGED evars

SkipSpec == Init /\ [][SkipNext]_vars

\* C27: whenever the overall status of an investigation is complete, each
\* of its five stages is complete with exactly one completed-task record,
\* also when task_callback skipped an update.
C27_CompleteMeansAllComplete ==
    \A i \in DOMAIN investigations :
        investigations[i].status = COMPLETE =>
            \A k \in Stages :
                /\ investigations[i].agents[k].status = COMPLETE
                /\ Len(investigations[i].agents[k].tasks_completed) = 1


(***************************************************************************)
(* One investigation with its engines: the crew runs the five tasks, the   *)
(* agents of tasks 2..5 may call their engine tool on the tables, and      *)
(* nothing but an engine fails                                             *)
(***************************************************************************)
MaxRows == 1

\* The tool of the agent of task k (crew_setup lines 59-72); tool_out keeps
\* the answers of the four engines that follow data validation.
EngineAnswer(k, data) ==
    CASE k = 2 -> ReconciliationTool_run(data)
      [] k = 3 -> ContractComplianceTool_run(data)
      [] k = 4 -> BudgetAnalysisTool_run(data)
      [] k = 5 -> ReportGenerationTool_run(data)

\* The entry of tool_out for an engine its agent never called.
NotCalled == [error |-> ""]

\* A read of the running engine; with its last read the engine has its
\* tables and returns its answer (a report or the text of the except branch)
ToolReadWithEngine(i) ==
    /\ ToolRead(i)
    /\ ~ NoData(dataset)
    /\ tool_out' = IF /\ task[i] >= 2
                      /\ Len(reads[i]) + 1 = ToolReads[task[i]]
                      /\ Len(tool_out) < task[i] - 1
                   THEN Append(tool_out, EngineAnswer(task[i], dataset))
                   ELSE tool_out
    /\ UNCHANGED dataset

\* The first read of the running engine finds no table: the KeyError is
\* caught and the engine returns the text of its except branch, having
\* read nothing
ToolReadRaises(i) ==
    /\ pc[i] = "kickoff"
    /\ NoData(dataset)
    /\ reads[i] = << >>
    /\ tool_out' = IF task[i] >= 2 /\ Len(tool_out) < task[i] - 1
                   THEN Append(tool_out, EngineAnswer(task[i], dataset))
                   ELSE tool_out
    /\ resp' = NoResp
    /\ UNCHANGED <<investigations, GLOBAL_DATA, pc, data_dict, task, task_output, reads,
                   exc, returned, rpc, dataset>>

\* The agent gives its answer and the crew calls task_callback
RunTaskWithEngine(i) ==
    /\ RunTask(i)
    /\ tool_out' = IF task[i] >= 2 /\ Len(tool_out) < task[i] - 1
                   THEN Append(tool_out, NotCalled)
                   ELSE tool_out
    /\ UNCHANGED dataset

PipelineStep(i) ==
    /\ UNCHANGED evars
    /\ \/ Register(i) \/ GenerateData(i) \/ StartThread(i) \/ ReturnId(i)
       \/ FirstRunning(i) \/ FirstStartedAt(i) \/ FirstActivity(i)
       \/ SetGlobalData(i) \/ CreateCrew(i)
       \/ CbAppendTask(i) \/ CbMarkComplete(i) \/ CbCompletedAt(i)
       \/ CbActivityNext(i) \/ CbActivityLast(i) \/ CbStartNext(i) \/ CbNextStartedAt(i)
       \/ FinalReport(i) \/ FinalStatus(i) \/ FinalCompletedAt(i)

PipelineNext ==
    \/ PipelineStep(1)
    \/ ToolReadWithEngine(1)
    \/ ToolReadRaises(1)
    \/ RunTaskWithEngine(1)

\* The tables the engines read: none at all, or visits and payments of up
\* to MaxRows rows (an empty payment table included).
PipelineInit ==
    /\ Constructed
    /\ \/ dataset = << >>
       \/ \E visits_df \in Tables(ReconVisitRows, MaxRows),
             payments_df \in Tables(ReconPaymentRows, MaxRows) :
               dataset = [visits |-> visits_df, payments |-> payments_df,
                          contracts |-> <<Contract("SITE_001", 1500)>>,
                          budgets |-> <<Budget("SITE_001", 2000)>>]
    /\ tool_out = << >>

PipelineSpec == PipelineInit /\ [][PipelineNext]_vars

\* The texts of the except branches that the tables above can produce.
EngineErrorTexts ==
    {"Error during reconciliation: 'visits'",
     "Error checking contract compliance: 'contracts'",
     "Error checking contract compliance: division by zero",
     "Error analyzing budget: 'budgets'",
     "Error generating report: 'visits'"}

\* Engine k (in tool_out order) ran and met a failure: no tables, or the
\* compliance check on an empty payment table.
EngineFailed(k) ==
    /\ tool_out[k] # NotCalled
    /\ \/ NoData(dataset)
       \/ k = 2 /\ dataset.payments = << >>

\* The handler of the task of engine k has returned.
HandledEngine(i, k) ==
    \/ pc[i] = "kickoff" /\ task[i] > k + 1
    \/ pc[i] \in {"L102", "L103", "L104", "done"}

\* C28: no engine raises to the pipeline: an engine that fails (no tables
\* set, division by zero on an empty payment table) answers with a text
\* that begins with "Error", its stage still gets its completion event and
\* is recorded complete with one record, and neither a stage nor the
\* investigation is put into the error state.
C28_EngineFailureContained ==
    /\ \A k \in DOMAIN tool_out :
          /\ EngineFailed(k) => tool_out[k].error \in EngineErrorTexts
          /\ (tool_out[k].error # "" /\ HandledEngine(1, k)) =>
                DoneStage(investigations[1], k + 1)
    /\ \A i \in DOMAIN investigations :
          /\ investigations[i].status # ERROR
          /\ \A j \in Stages : investigations[i].agents[j].status # ERROR

\* The compliance engine failed on an empty payment table, the other
\* engines answered, and the investigation is complete.
C28_Witness ==
    /\ Len(tool_out) = 4
    /\ tool_out[1] # NotCalled
    /\ tool_out[1].error = ""
    /\ tool_out[2].error = "Error checking contract compliance: division by zero"
    /\ investigations[1].status = COMPLETE
    /\ investigations[1].agents[3].status = COMPLETE

====
